---- MODULE Spec2Model ----
(***************************************************************************)
(* KaleidoSwap Registry front-end (src/src/App.tsx and the two earlier     *)
(* variants of the same component, src/unnamed/part_000 and part_001).     *)
(*                                                                         *)
(* The model has these parts:                                              *)
(*   - the data fetcher: the two useQuery calls keyed by (resource,        *)
(*     network), their queryFn (axios.get, the catch block that normalizes *)
(*     the error), the requests sent and the query states observed;        *)
(*   - the filter/sort pipeline: filteredPairs, sortData, sortedPairs;     *)
(*   - what Registry renders: the assets section and the pairs section;    *)
(*   - the routes of App, which hand the network to Registry;              *)
(*   - AssetId: the copy button, its clipboard write and its timer.        *)
(*                                                                         *)
(* Text that the code searches, lowercases or compares with < is a         *)
(* sequence of UTF-16 code units (numbers); text that is only passed on    *)
(* (error messages, error codes) is a TLA+ string.                         *)
(***************************************************************************)
EXTENDS Integers, Sequences, FiniteSets, TLC

VARIABLES
    network,      \* the active network: useParams /:network (App.tsx:52), useState (part_000:50)
    pairFilter,   \* text of the pair search box (App.tsx:55)
    sortConfig,   \* Null or [key, direction] (App.tsx:56, part_001:55)
    queries,      \* the query cache: (resource, network) -> query state
    requests,     \* the GET requests sent by the last step (the mount at first):
                  \* (resource, network) -> sequence of URLs
    navigations,  \* number of network switches so far (bounded by MaxNavigations)
    theme,        \* "light" or "dark" (App.tsx:54)
    clipboard,    \* the text on the system clipboard
    copied,       \* the copied state of the mounted AssetId of each identifier (App.tsx:125)
    writes,       \* the calls of navigator.clipboard.writeText that handleCopy awaits
    timers,       \* the timers started by setTimeout and not fired yet, oldest first
    consoleErrors, \* the messages written with console.error
    assetFilter,  \* text of the asset filter (part_001:53)
    copiedId,     \* Null or the text marked as copied, one for all buttons (part_000:52, part_001:52)
    copyWrites,   \* the calls of navigator.clipboard.writeText that copyToClipboard awaits
    copyTimers,   \* the timers started by copyToClipboard and not fired yet, oldest first
    prefersDark,  \* window.matchMedia('(prefers-color-scheme: dark)').matches (App.tsx:59)
    mounted       \* TRUE once the mount effect has run (App.tsx:58-61)

vars == <<network, pairFilter, sortConfig, queries, requests, navigations,
          theme, clipboard, copied, writes, timers, consoleErrors,
          assetFilter, copiedId, copyWrites, copyTimers, prefersDark, mounted>>

\* the state of the AssetId components and of what their handlers touch
copyVars == <<clipboard, copied, writes, timers, consoleErrors>>

\* the state that only the variant components have (part_000, part_001)
variantVars == <<assetFilter, copiedId, copyWrites, copyTimers>>

\* the colour-scheme preference and the progress of the mount effect
mountVars == <<prefersDark, mounted>>

(***************************************************************************)
(* Bounds of the model.                                                    *)
(***************************************************************************)
MaxPairs == 3

MaxNavigations == 2

\* copies whose write or whose timer is pending at one time
MaxPendingCopies == 2

\* assets in a collection given to the asset filter
MaxAssets == 3

(***************************************************************************)
(* JavaScript values.                                                      *)
(***************************************************************************)
Null == [null |-> TRUE]

Undefined == [undefined |-> TRUE]

Networks == {"signet", "regtest"}

Resources == {"assets", "pairs"}

\* const API_ENDPOINTS (App.tsx:46-49)
API_ENDPOINTS ==
    [signet  |-> "https://api.signet.kaleidoswap.com",
     regtest |-> "https://api.regtest.kaleidoswap.com"]

(***************************************************************************)
(* Strings as sequences of code units.                                     *)
(***************************************************************************)
\* "/" in the template string `${pair.base_asset}/${pair.quote_asset}`
Slash == <<47>>

\* String.prototype.toLowerCase on one code unit (A-Z -> a-z)
LowerUnit(u) == IF u >= 65 /\ u <= 90 THEN u + 32 ELSE u

\* String.prototype.toLowerCase
ToLowerCase(s) == [i \in 1..Len(s) |-> LowerUnit(s[i])]

\* String.prototype.includes: scan the start positions from the left
RECURSIVE Includes(_, _)
Includes(s, search) ==
    IF Len(search) > Len(s) THEN FALSE
    ELSE IF SubSeq(s, 1, Len(search)) = search THEN TRUE
    ELSE Includes(Tail(s), search)

\* the < operator on two strings: lexicographic on code units
RECURSIVE StringLess(_, _)
StringLess(s, t) ==
    IF t = <<>> THEN FALSE
    ELSE IF s = <<>> THEN TRUE
    ELSE IF s[1] < t[1] THEN TRUE
    ELSE IF s[1] > t[1] THEN FALSE
    ELSE StringLess(Tail(s), Tail(t))

(***************************************************************************)
(* Pairs and assets delivered by the API (interface Pair, interface Asset).*)
(***************************************************************************)
\* "BTC", "USD", "ETH", "eth"
sBTC == <<66, 84, 67>>
sUSD == <<85, 83, 68>>
sETH == <<69, 84, 72>>
sEth == <<101, 116, 104>>
\* asset identifiers "r:U", "r:E", "r:bTc"
idUSD == <<114, 58, 85>>
idETH == <<114, 58, 69>>
idWrapped == <<114, 58, 98, 84, 99>>

PairStringFields == {"id", "base_asset", "base_asset_id", "quote_asset", "quote_asset_id"}
PairBooleanFields == {"is_active"}
PairNumberFields == {"min_order_size", "max_order_size", "price_precision", "quantity_precision"}

MkPair(id, b, bid, q, qid, act, mn, mx, pp, qp) ==
    [id |-> id, base_asset |-> b, base_asset_id |-> bid, quote_asset |-> q,
     quote_asset_id |-> qid, is_active |-> act, min_order_size |-> mn,
     max_order_size |-> mx, price_precision |-> pp, quantity_precision |-> qp]

\* BTC/USD, ETH/USD, eth/BTC, USD/ETH (base id "r:bTc")
PairBtcUsd == MkPair(<<112, 49>>, sBTC, sBTC, sUSD, idUSD, TRUE, 1, 10, 2, 0)
PairEthUsd == MkPair(<<112, 50>>, sETH, idETH, sUSD, idUSD, TRUE, 1, 5, 2, 1)
PairEthBtc == MkPair(<<112, 51>>, sEth, idETH, sBTC, sBTC, FALSE, 2, 5, 0, 1)
PairUsdEth == MkPair(<<112, 52>>, sUSD, idWrapped, sETH, idETH, TRUE, 1, 10, 0, 0)

PairPool == {PairBtcUsd, PairEthUsd, PairEthBtc, PairUsdEth}

\* every pairs collection of at most MaxPairs pairs
PairCollections == UNION {[1..n -> PairPool] : n \in 0..MaxPairs}

MkAsset(id, ticker, name, precision, supply) ==
    [asset_id |-> id, asset_iface |-> "RGB20", ticker |-> ticker, name |-> name,
     precision |-> precision, issued_supply |-> supply, is_active |-> TRUE,
     balance |-> [settled |-> supply, future |-> supply, spendable |-> supply,
                  offchain_outbound |-> 0, offchain_inbound |-> 0]]

AssetUsd == MkAsset(idUSD, sUSD, sUSD, 2, 1000)
AssetEth == MkAsset(idETH, sETH, sEth, 8, 21)
AssetWrapped == MkAsset(idWrapped, sUSD, sUSD, 2, 500)
\* ticker "BTC", name "Tth", identifier "r:x"
AssetTether == MkAsset(<<114, 58, 120>>, sBTC, <<84, 116, 104>>, 0, 7)

AssetPool == {AssetUsd, AssetEth, AssetWrapped, AssetTether}

\* every assets collection of at most MaxAssets assets
AssetCollections == UNION {[1..n -> AssetPool] : n \in 0..MaxAssets}

(***************************************************************************)
(* The filter/sort pipeline (App.tsx:101-117; the same code is at          *)
(* part_000:113-129 and part_001:114-120, 142-154).                        *)
(***************************************************************************)
\* PairMatches with the filter text not lowercased
PairMatchesCaseSensitive(pair, filter) ==
    \/ Includes(ToLowerCase(pair.base_asset \o Slash \o pair.quote_asset), filter)
    \/ Includes(ToLowerCase(pair.base_asset_id), filter)
    \/ Includes(ToLowerCase(pair.quote_asset_id), filter)

\* PairMatches guarded by a non-empty filter text
PairMatchesNonEmptyOnly(pair, filter) ==
    /\ filter # <<>>
    /\ \/ Includes(ToLowerCase(pair.base_asset \o Slash \o pair.quote_asset), ToLowerCase(filter))
       \/ Includes(ToLowerCase(pair.base_asset_id), ToLowerCase(filter))
       \/ Includes(ToLowerCase(pair.quote_asset_id), ToLowerCase(filter))

\* String.prototype.startsWith
StartsWith(s, search) == Len(search) <= Len(s) /\ SubSeq(s, 1, Len(search)) = search

\* PairMatches with startsWith in place of includes
PairMatchesStartsWith(pair, filter) ==
    \/ StartsWith(ToLowerCase(pair.base_asset \o Slash \o pair.quote_asset), ToLowerCase(filter))
    \/ StartsWith(ToLowerCase(pair.base_asset_id), ToLowerCase(filter))
    \/ StartsWith(ToLowerCase(pair.quote_asset_id), ToLowerCase(filter))

\* the filter callback of filteredPairs (App.tsx:109-113)
PairMatches(pair, filter) ==
    \/ Includes(ToLowerCase(pair.base_asset \o Slash \o pair.quote_asset), ToLowerCase(filter))
    \/ Includes(ToLowerCase(pair.base_asset_id), ToLowerCase(filter))
    \/ Includes(ToLowerCase(pair.quote_asset_id), ToLowerCase(filter))

\* FilterPairs with a placeholder pair as the fallback instead of []
FilterPairsPlaceholder(data, filter) ==
    IF data = Undefined THEN <<PairBtcUsd>>
    ELSE SelectSeq(data.pairs, LAMBDA pair : PairMatches(pair, filter))

\* pairsData?.pairs.filter(...) || []   (App.tsx:109-113)
FilterPairs(data, filter) ==
    IF data = Undefined THEN <<>>
    ELSE SelectSeq(data.pairs, LAMBDA pair : PairMatches(pair, filter))

\* AssetMatches without the test of the name
AssetMatchesNoName(asset, filter) ==
    \/ Includes(ToLowerCase(asset.ticker), ToLowerCase(filter))
    \/ Includes(ToLowerCase(asset.asset_id), ToLowerCase(filter))

\* the filter callback of filteredAssets (part_001:136-140)
AssetMatches(asset, filter) ==
    \/ Includes(ToLowerCase(asset.ticker), ToLowerCase(filter))
    \/ Includes(ToLowerCase(asset.name), ToLowerCase(filter))
    \/ Includes(ToLowerCase(asset.asset_id), ToLowerCase(filter))

\* assetsData?.assets.filter(...) || []   (part_001:136-140)
FilterAssets(data, filter) ==
    IF data = Undefined THEN <<>>
    ELSE SelectSeq(data.assets, LAMBDA asset : AssetMatches(asset, filter))

\* a[key] < b[key] for two elements of one collection; a missing property is
\* undefined, and undefined < undefined is false
FieldLess(a, b, key) ==
    IF key \notin DOMAIN a \/ key \notin DOMAIN b THEN FALSE
    ELSE IF key \in PairStringFields THEN StringLess(a[key], b[key])
    ELSE IF key \in PairBooleanFields THEN (~a[key]) /\ b[key]
    ELSE a[key] < b[key]

\* Comparator that ignores the direction
ComparatorAscOnly(a, b, key, direction) ==
    IF FieldLess(a, b, key) THEN -1
    ELSE IF FieldLess(b, a, key) THEN 1
    ELSE 0

\* Comparator without the test a[key] > b[key]: a tie compares as greater
ComparatorNoTie(a, b, key, direction) ==
    IF FieldLess(a, b, key) THEN (IF direction = "asc" THEN -1 ELSE 1)
    ELSE (IF direction = "asc" THEN 1 ELSE -1)

\* the comparator passed to sort (App.tsx:102-106)
Comparator(a, b, key, direction) ==
    IF FieldLess(a, b, key) THEN (IF direction = "asc" THEN -1 ELSE 1)
    ELSE IF FieldLess(b, a, key) THEN (IF direction = "asc" THEN 1 ELSE -1)
    ELSE 0

\* one insertion of the stable sort: x goes behind every element that does
\* not compare greater than it
RECURSIVE SortInsert(_, _, _, _)
SortInsert(sorted, x, key, direction) ==
    IF sorted = <<>> THEN <<x>>
    ELSE IF Comparator(sorted[Len(sorted)], x, key, direction) > 0
         THEN Append(SortInsert(SubSeq(sorted, 1, Len(sorted) - 1), x, key, direction),
                     sorted[Len(sorted)])
         ELSE Append(sorted, x)

\* Array.prototype.sort with the comparator (stable since ES2019)
RECURSIVE ArraySort(_, _, _)
ArraySort(arr, key, direction) ==
    IF arr = <<>> THEN <<>>
    ELSE SortInsert(ArraySort(SubSeq(arr, 1, Len(arr) - 1), key, direction),
                    arr[Len(arr)], key, direction)

\* sortData that returns the elements from the last to the first on a tie
RECURSIVE sortDataTiesReversed(_, _, _)
sortDataTiesReversed(data, key, direction) ==
    IF data = <<>> THEN <<>>
    ELSE LET rest == sortDataTiesReversed(Tail(data), key, direction)
             before == SelectSeq(rest, LAMBDA y : Comparator(y, data[1], key, direction) <= 0)
             after == SelectSeq(rest, LAMBDA y : Comparator(y, data[1], key, direction) > 0)
         IN before \o <<data[1]>> \o after

\* sortData: the array it returns (App.tsx:101-107)
sortData(data, key, direction) == ArraySort(data, key, direction)

\* sortData that sorts `data` itself: data.sort(...) without the spread
sortDataArgumentInPlace(data, key, direction) == ArraySort(data, key, direction)

\* sortData: the content of the caller's array `data` after the call; sort
\* runs on the spread copy [...data], so the argument keeps its content
sortDataArgument(data, key, direction) == data

\* QueryOf with a query key that leaves the network out: one cache entry
\* per resource
QueryOfResourceKey(resource) == queries[<<resource, "signet">>]

\* what the component destructures from useQuery({queryKey: [resource, network]})
\* (App.tsx:63-64, 82-83)
QueryOf(resource) == queries[<<resource, network>>]

pairsData == QueryOf("pairs").data

assetsData == QueryOf("assets").data

filteredPairs == FilterPairs(pairsData, pairFilter)

\* const filteredAssets (part_001:136-140)
filteredAssets == FilterAssets(assetsData, assetFilter)

\* SortedPairs that sorts by id when there is no sort configuration
SortedPairsDefaultSort(filtered, config) ==
    IF Len(filtered) > 0
    THEN IF config # Null THEN sortData(filtered, config.key, config.direction)
         ELSE sortData(filtered, "id", "desc")
    ELSE filtered

\* sortConfig && filteredPairs.length > 0 ? sortData(...) : filteredPairs  (App.tsx:115-117)
SortedPairs(filtered, config) ==
    IF config # Null /\ Len(filtered) > 0
    THEN sortData(filtered, config.key, config.direction)
    ELSE filtered

sortedPairs == SortedPairs(filteredPairs, sortConfig)

\* the arrays of one render after the render has run: the array bound to
\* filteredPairs (the argument of sortData) and the array bound to sortedPairs
Rendered ==
    [filteredPairs |->
        IF sortConfig # Null /\ Len(filteredPairs) > 0
        THEN sortDataArgument(filteredPairs, sortConfig.key, sortConfig.direction)
        ELSE filteredPairs,
     sortedPairs |-> sortedPairs]


(***************************************************************************)
(* The data fetcher: queryFn of the two useQuery calls (App.tsx:63-99).    *)
(***************************************************************************)
\* what axios.get can reject with, and one error that is not an AxiosError
Http500DbDown ==
    [isAxiosError |-> TRUE, code |-> "ERR_BAD_RESPONSE",
     message |-> "Request failed with status code 500",
     response |-> [status |-> 500, data |-> [message |-> "db down"]]]

Http500EmptyMessage ==
    [isAxiosError |-> TRUE, code |-> "ERR_BAD_RESPONSE",
     message |-> "Request failed with status code 500",
     response |-> [status |-> 500, data |-> [message |-> ""]]]

Http404NoMessage ==
    [isAxiosError |-> TRUE, code |-> "ERR_BAD_REQUEST",
     message |-> "Request failed with status code 404",
     response |-> [status |-> 404, data |-> [detail |-> "Not Found"]]]

NetworkError ==
    [isAxiosError |-> TRUE, code |-> "ERR_NETWORK", message |-> "Network Error"]

NetworkErrorNoCode ==
    [isAxiosError |-> TRUE, message |-> "Network Error"]

NotAxiosError ==
    [name |-> "TypeError", message |-> "Cannot read properties of undefined"]

CaughtErrors ==
    {Http500DbDown, Http500EmptyMessage, Http404NoMessage, NetworkError,
     NetworkErrorNoCode, NotAxiosError}

\* axios.isAxiosError(error)
isAxiosError(error) == "isAxiosError" \in DOMAIN error /\ error.isAxiosError

\* message: 'Failed to fetch assets' / 'Failed to fetch trading pairs'  (App.tsx:72, 91)
FailedMessage(resource) ==
    IF resource = "assets" THEN "Failed to fetch assets" ELSE "Failed to fetch trading pairs"

\* new Error('An unexpected error occurred while fetching ...')  (App.tsx:77, 96)
UnexpectedMessage(resource) ==
    IF resource = "assets" THEN "An unexpected error occurred while fetching assets"
    ELSE "An unexpected error occurred while fetching trading pairs"

\* error.response?.data?.message is a property that exists
HasResponseMessage(error) ==
    /\ "response" \in DOMAIN error
    /\ "data" \in DOMAIN error.response
    /\ "message" \in DOMAIN error.response.data

\* details: error.response?.data?.message || error.message  (App.tsx:74, 93)
ErrorDetails(error) ==
    IF HasResponseMessage(error) /\ error.response.data.message # ""
    THEN error.response.data.message
    ELSE error.message

\* QueryFnThrows with details: error.message (the response body is not read)
QueryFnThrowsRawDetails(resource, error) ==
    IF isAxiosError(error)
    THEN IF "code" \in DOMAIN error
         THEN [message |-> FailedMessage(resource), code |-> error.code,
               details |-> error.message]
         ELSE [message |-> FailedMessage(resource), details |-> error.message]
    ELSE [name |-> "Error", message |-> UnexpectedMessage(resource)]

\* QueryFnThrows without the axios.isAxiosError test: every error is normalized
QueryFnThrowsAlwaysNormalized(resource, error) ==
    IF "code" \in DOMAIN error
    THEN [message |-> FailedMessage(resource), code |-> error.code,
          details |-> ErrorDetails(error)]
    ELSE [message |-> FailedMessage(resource), details |-> ErrorDetails(error)]

\* the value the catch block of queryFn throws (App.tsx:69-78, 88-97);
\* code: error.code is left out of the record when error.code is undefined
QueryFnThrows(resource, error) ==
    IF isAxiosError(error)
    THEN IF "code" \in DOMAIN error
         THEN [message |-> FailedMessage(resource), code |-> error.code,
               details |-> ErrorDetails(error)]
         ELSE [message |-> FailedMessage(resource), details |-> ErrorDetails(error)]
    ELSE [name |-> "Error", message |-> UnexpectedMessage(resource)]

\* the URL of axios.get (App.tsx:67, 86)
\* RequestUrl with the base URL of signet whatever the network
RequestUrlOfSignet(resource, n) ==
    <<API_ENDPOINTS["signet"],
      IF resource = "assets" THEN "/api/v1/market/assets" ELSE "/api/v1/market/pairs">>

\* `${API_ENDPOINTS[network]}/api/v1/market/...`: a base URL and a path; a
\* network that is no key of API_ENDPOINTS is formatted as "undefined"
RequestUrl(resource, n) ==
    <<IF n \in DOMAIN API_ENDPOINTS THEN API_ENDPOINTS[n] ELSE "undefined",
      IF resource = "assets" THEN "/api/v1/market/assets" ELSE "/api/v1/market/pairs">>

\* response.data of a successful GET; the two networks are two servers with
\* their own assets and pairs
AssetsResponses(n) ==
    IF n = "signet" THEN {[assets |-> <<AssetUsd, AssetEth>>]} ELSE {[assets |-> <<AssetWrapped>>]}

PairsResponses(n) ==
    IF n = "signet" THEN {[pairs |-> <<PairBtcUsd, PairEthUsd>>], [pairs |-> <<PairEthBtc>>]}
    ELSE {[pairs |-> <<PairUsdEth>>], [pairs |-> <<>>]}

ResponseBodies(resource, n) ==
    IF resource = "assets" THEN AssetsResponses(n) ELSE PairsResponses(n)

(***************************************************************************)
(* The query cache behind useQuery({queryKey: [resource, network], ...}).  *)
(* A query is pending until it has data or an error; a key that is         *)
(* observed again is fetched again when its data is stale, in the          *)
(* background when it already holds data.                                  *)
(***************************************************************************)
QueryKeys == Resources \X Networks

\* staleTime of the query client.  The client is constructed outside the
\* component; by the specification a change of the network triggers a new
\* fetch, which is the library's default: fetched data is stale at once.
StaleTime == 0

\* retry of the query client: the number of times a failed fetch is sent
\* again.  The client is constructed outside the component; by the
\* specification no retries are specified and each fetch is attempted once.
Retry == 0

NewQuery ==
    [status |-> "pending", fetchStatus |-> "idle", data |-> Undefined, error |-> Null,
     fetchFailureCount |-> 0]

\* the observer of a key starts a fetch unless one is already in flight
StartFetch(q) ==
    IF q.fetchStatus = "fetching" THEN q
    ELSE IF q.data = Undefined
         THEN [q EXCEPT !.fetchStatus = "fetching", !.status = "pending", !.error = Null,
                        !.fetchFailureCount = 0]
         ELSE [q EXCEPT !.fetchStatus = "fetching", !.fetchFailureCount = 0]

\* the component observes the key: useQuery fetches a query without data, and
\* one whose data is stale
Observe(q) ==
    IF q.data = Undefined \/ StaleTime = 0 THEN StartFetch(q) ELSE q

\* observing the key sends a GET request: queryFn runs, axios.get (App.tsx:67, 86)
SendsRequest(q) == Observe(q).fetchStatus = "fetching" /\ q.fetchStatus # "fetching"

\* a step that sends no request
NoRequests == [k \in DOMAIN requests |-> <<>>]

\* the requests sent when the component comes to observe the two keys of network n
RequestsAfterObserve(n) ==
    [k \in DOMAIN requests |->
        IF k[2] = n /\ SendsRequest(queries[k]) THEN <<RequestUrl(k[1], n)>> ELSE <<>>]

\* isLoading of useQuery (App.tsx:63, 82)
IsLoading(resource) ==
    QueryOf(resource).status = "pending" /\ QueryOf(resource).fetchStatus = "fetching"

isLoadingAssets == IsLoading("assets")

isLoadingPairs == IsLoading("pairs")

assetsError == QueryOf("assets").error

pairsError == QueryOf("pairs").error

(***************************************************************************)
(* What the component renders (App.tsx:287-703): the two sections.         *)
(***************************************************************************)
\* AssetsSection rendered under the conditions of the pairs section: nothing
\* but a spinner or an alert while either fetch is loading or has failed
AssetsSectionOfBothQueries ==
    [spinner |-> isLoadingAssets \/ isLoadingPairs,
     alert |-> IF assetsError # Null \/ pairsError # Null
               THEN [title |-> "Error loading assets",
                     text |-> "Failed to load data. Please try again later."]
               ELSE Null,
     rows |-> IF assetsData = Undefined \/ pairsError # Null THEN <<>> ELSE assetsData.assets]

\* the assets section (App.tsx:516-568): the spinner in the heading, the
\* alert and the rows of the table
AssetsSection ==
    [spinner |-> isLoadingAssets,
     alert |-> IF assetsError # Null
               THEN [title |-> "Error loading assets",
                     text |-> IF assetsError.message # "" THEN assetsError.message
                              ELSE "An unexpected error occurred"]
               ELSE Null,
     rows |-> IF assetsData = Undefined THEN <<>> ELSE assetsData.assets]

\* the pairs section (App.tsx:598-632): a spinner, an alert or the cards of
\* sortedPairs with the notice shown when there is none
PairsSection ==
    IF isLoadingPairs \/ isLoadingAssets THEN [shows |-> "spinner"]
    ELSE IF pairsError # Null \/ assetsError # Null
    THEN [shows |-> "alert", text |-> "Failed to load data. Please try again later."]
    ELSE [shows |-> "pairs", cards |-> sortedPairs,
          notices |-> IF Len(sortedPairs) = 0
                      THEN <<"No trading pairs found matching your search criteria.">>
                      ELSE <<>>]

(***************************************************************************)
(* AssetId (App.tsx:120-209), a component declared in the body of Registry *)
(* with a state of its own.  Every render of Registry declares it anew, so *)
(* the AssetId elements of the render are of a new component type: the     *)
(* mounted instances are unmounted with their state and new ones mount     *)
(* with copied = false.  A pending write or timer keeps its closure over   *)
(* the setter of the unmounted instance, which no longer does anything;    *)
(* live tells whether the instance is still the mounted one.               *)
(***************************************************************************)
\* the identifiers of the asset rows
CopyIds == {idUSD, idETH}

\* the delay of the timer that clears the indicator, in ms (App.tsx:131)
CopiedMs == 2000

Ellipsis == <<46, 46, 46>>

\* id.slice(0, 8) and id.slice(-8)
SliceStart(s, n) == SubSeq(s, 1, IF Len(s) < n THEN Len(s) ELSE n)

SliceEnd(s, n) == SubSeq(s, IF Len(s) < n THEN 1 ELSE Len(s) - n + 1, Len(s))

\* the text AssetId displays for an identifier (App.tsx:183-187)
DisplayedId(id) == SliceStart(id, 8) \o Ellipsis \o SliceEnd(id, 8)

\* the identifier has an asset row with its AssetId on display (App.tsx:545-551)
HasAssetRow(id) ==
    \E i \in 1..Len(AssetsSection.rows) : AssetsSection.rows[i].asset_id = id

Detached(pending) == [i \in 1..Len(pending) |-> [pending[i] EXCEPT !.live = FALSE]]

\* Registry renders again after a change of its state, of its route or of
\* an observed query
RegistryRenders ==
    /\ copied' = [id \in DOMAIN copied |-> FALSE]
    /\ writes' = Detached(writes)
    /\ timers' = Detached(timers)
    /\ UNCHANGED <<clipboard, consoleErrors>>

\* the state of the component's surroundings at the mount; the mount effect
\* has run with a dark colour-scheme preference (UiSpec starts before it)
InitUi ==
    /\ theme = "dark"
    /\ clipboard = <<>>
    /\ copied = [id \in CopyIds |-> FALSE]
    /\ writes = <<>>
    /\ timers = <<>>
    /\ consoleErrors = {}
    /\ assetFilter = <<>>
    /\ copiedId = Null
    /\ copyWrites = <<>>
    /\ copyTimers = <<>>
    /\ prefersDark = TRUE
    /\ mounted = TRUE

(***************************************************************************)
(* Actions.                                                                *)
(***************************************************************************)
\* texts typed into the pair search box: "", "btc", "BTC", "usd", "c/u", "r:", "th", "x"
FilterTexts ==
    {<<>>, <<98, 116, 99>>, sBTC, <<117, 115, 100>>, <<99, 47, 117>>, <<114, 58>>,
     <<116, 104>>, <<120>>}

\* the texts typed while fetches are in flight: "", "btc"
TypedTexts == {<<>>, <<98, 116, 99>>}

SortKeys == PairStringFields \cup PairBooleanFields \cup PairNumberFields \cup {"ticker"}

\* Navigate that also clears the search box
NavigateClearsFilter(n) ==
    /\ n # network
    /\ navigations < MaxNavigations
    /\ network' = n
    /\ navigations' = navigations + 1
    /\ queries' = [k \in DOMAIN queries |-> IF k[2] = n THEN Observe(queries[k]) ELSE queries[k]]
    /\ requests' = RequestsAfterObserve(n)
    /\ RegistryRenders
    /\ pairFilter' = <<>>
    /\ UNCHANGED <<variantVars, mountVars, sortConfig, theme>>

\* navigate('/signet') / navigate('/regtest') (App.tsx:361, 375), setNetwork (part_000:199, 206):
\* the query keys change and both queries of the new network are fetched
Navigate(n) ==
    /\ n # network
    /\ navigations < MaxNavigations
    /\ network' = n
    /\ navigations' = navigations + 1
    /\ queries' = [k \in DOMAIN queries |-> IF k[2] = n THEN Observe(queries[k]) ELSE queries[k]]
    /\ requests' = RequestsAfterObserve(n)
    /\ RegistryRenders
    /\ UNCHANGED <<variantVars, mountVars, pairFilter, sortConfig, theme>>

\* axios.get resolves: queryFn returns response.data (App.tsx:67-68, 86-87)
FetchSucceed(resource, n, body) ==
    /\ queries[<<resource, n>>].fetchStatus = "fetching"
    /\ queries' = [queries EXCEPT ![<<resource, n>>] =
                      [status |-> "success", fetchStatus |-> "idle", data |-> body, error |-> Null,
                       fetchFailureCount |-> 0]]
    /\ requests' = NoRequests
    /\ IF n = network THEN RegistryRenders ELSE UNCHANGED copyVars
    /\ UNCHANGED <<variantVars, mountVars, network, pairFilter, sortConfig, navigations, theme>>

\* FetchFail with a catch block that returns the error instead of throwing it
FetchFailReturnsError(resource, n, caught) ==
    /\ queries[<<resource, n>>].fetchStatus = "fetching"
    /\ queries' = [queries EXCEPT ![<<resource, n>>] =
                      [status |-> "success", fetchStatus |-> "idle",
                       data |-> QueryFnThrows(resource, caught), error |-> Null,
                       fetchFailureCount |-> 0]]
    /\ requests' = NoRequests
    /\ IF n = network THEN RegistryRenders ELSE UNCHANGED copyVars
    /\ UNCHANGED <<variantVars, mountVars, network, pairFilter, sortConfig, navigations, theme>>

\* FetchFail with a catch block that sends the request once more before it throws
FetchFailSendsAgain(resource, n, caught) ==
    /\ queries[<<resource, n>>].fetchStatus = "fetching"
    /\ IF queries[<<resource, n>>].fetchFailureCount < 1
       THEN /\ queries' = [queries EXCEPT ![<<resource, n>>].fetchFailureCount = @ + 1]
            /\ requests' = [NoRequests EXCEPT ![<<resource, n>>] = <<RequestUrl(resource, n)>>]
       ELSE /\ queries' = [queries EXCEPT ![<<resource, n>>] =
                              [@ EXCEPT !.status = "error", !.fetchStatus = "idle",
                                        !.error = QueryFnThrows(resource, caught)]]
            /\ requests' = NoRequests
    /\ IF n = network THEN RegistryRenders ELSE UNCHANGED copyVars
    /\ UNCHANGED <<variantVars, mountVars, network, pairFilter, sortConfig, navigations, theme>>

\* axios.get rejects (or the try block throws): queryFn throws (App.tsx:69-78, 88-97);
\* the query fails, unless the client has retries left and sends the request again
FetchFail(resource, n, caught) ==
    /\ queries[<<resource, n>>].fetchStatus = "fetching"
    /\ IF queries[<<resource, n>>].fetchFailureCount < Retry
       THEN /\ queries' = [queries EXCEPT ![<<resource, n>>].fetchFailureCount = @ + 1]
            /\ requests' = [NoRequests EXCEPT ![<<resource, n>>] = <<RequestUrl(resource, n)>>]
       ELSE /\ queries' = [queries EXCEPT ![<<resource, n>>] =
                              [@ EXCEPT !.status = "error", !.fetchStatus = "idle",
                                        !.error = QueryFnThrows(resource, caught)]]
            /\ requests' = NoRequests
    /\ IF n = network THEN RegistryRenders ELSE UNCHANGED copyVars
    /\ UNCHANGED <<variantVars, mountVars, network, pairFilter, sortConfig, navigations, theme>>

\* SetPairFilter with the filter text in the query keys: typing fetches again
SetPairFilterRefetches(text) ==
    /\ text # pairFilter
    /\ pairFilter' = text
    /\ queries' = [k \in DOMAIN queries |->
                      IF k[2] = network THEN StartFetch(queries[k]) ELSE queries[k]]
    /\ requests' = [k \in DOMAIN requests |->
                       IF k[2] = network /\ queries[k].fetchStatus # "fetching"
                       THEN <<RequestUrl(k[1], network)>> ELSE <<>>]
    /\ RegistryRenders
    /\ UNCHANGED <<variantVars, mountVars, network, sortConfig, navigations, theme>>

\* onChange of the pair search box: setPairFilter(e.target.value) (App.tsx:586)
SetPairFilter(text) ==
    /\ text # pairFilter
    /\ pairFilter' = text
    /\ requests' = NoRequests
    /\ RegistryRenders
    /\ UNCHANGED <<variantVars, mountVars, network, sortConfig, queries, navigations, theme>>

\* handleSort that flips the direction whatever the key of the current configuration is
handleSortAnyKey(key) ==
    /\ sortConfig' =
          [key |-> key,
           direction |-> IF sortConfig # Null /\ sortConfig.direction = "asc"
                         THEN "desc" ELSE "asc"]
    /\ requests' = NoRequests
    /\ UNCHANGED <<variantVars, mountVars, network, pairFilter, queries, navigations, theme>>
    /\ UNCHANGED copyVars

\* handleSort (part_001:122-127)
handleSort(key) ==
    /\ sortConfig' =
          [key |-> key,
           direction |-> IF sortConfig # Null /\ sortConfig.key = key /\ sortConfig.direction = "asc"
                         THEN "desc" ELSE "asc"]
    /\ requests' = NoRequests
    /\ UNCHANGED <<variantVars, mountVars, network, pairFilter, queries, navigations, theme>>
    /\ UNCHANGED copyVars

\* handleCopy with the displayed text of the button as its argument
handleCopyDisplayedText(id) ==
    /\ HasAssetRow(id)
    /\ Len(writes) + Len(timers) < MaxPendingCopies
    /\ writes' = Append(writes, [text |-> DisplayedId(id), id |-> id, live |-> TRUE])
    /\ UNCHANGED <<variantVars, mountVars, network, pairFilter, sortConfig, queries, navigations, theme,
                   clipboard, copied, timers, consoleErrors>>
    /\ requests' = NoRequests

\* onClick={() => handleCopy(id)} (App.tsx:180) up to the await of
\* navigator.clipboard.writeText(text) (App.tsx:127-129)
handleCopy(id) ==
    /\ HasAssetRow(id)
    /\ Len(writes) + Len(timers) < MaxPendingCopies
    /\ writes' = Append(writes, [text |-> id, id |-> id, live |-> TRUE])
    /\ UNCHANGED <<variantVars, mountVars, network, pairFilter, sortConfig, queries, navigations, theme,
                   clipboard, copied, timers, consoleErrors>>
    /\ requests' = NoRequests

Without(pending, i) == SubSeq(pending, 1, i - 1) \o SubSeq(pending, i + 1, Len(pending))

\* the write resolves: setCopied(true); setTimeout(() => setCopied(false), 2000)
\* (App.tsx:130-131)
WriteTextResolves(i) ==
    /\ i \in 1..Len(writes)
    /\ clipboard' = writes[i].text
    /\ copied' = IF writes[i].live THEN [copied EXCEPT ![writes[i].id] = TRUE] ELSE copied
    /\ timers' = Append(timers, [id |-> writes[i].id, live |-> writes[i].live,
                                 delay |-> CopiedMs])
    /\ writes' = Without(writes, i)
    /\ requests' = NoRequests
    /\ UNCHANGED <<variantVars, mountVars, network, pairFilter, sortConfig, queries, navigations, theme, consoleErrors>>

\* WriteTextRejects with a catch block that marks the identifier as copied
WriteTextRejectsMarksCopied(i) ==
    /\ i \in 1..Len(writes)
    /\ writes' = Without(writes, i)
    /\ copied' = IF writes[i].live THEN [copied EXCEPT ![writes[i].id] = TRUE] ELSE copied
    /\ consoleErrors' = consoleErrors \cup {"Failed to copy text: "}
    /\ requests' = NoRequests
    /\ UNCHANGED <<variantVars, mountVars, network, pairFilter, sortConfig, queries, navigations, theme,
                   clipboard, timers>>

\* the write rejects: console.error('Failed to copy text: ', err) (App.tsx:132-134)
WriteTextRejects(i) ==
    /\ i \in 1..Len(writes)
    /\ writes' = Without(writes, i)
    /\ consoleErrors' = consoleErrors \cup {"Failed to copy text: "}
    /\ requests' = NoRequests
    /\ UNCHANGED <<variantVars, mountVars, network, pairFilter, sortConfig, queries, navigations, theme,
                   clipboard, copied, timers>>

\* the oldest timer fires (all timers have the same delay): setCopied(false)
\* (App.tsx:131)
TimerFires ==
    /\ timers # <<>>
    /\ copied' = IF Head(timers).live THEN [copied EXCEPT ![Head(timers).id] = FALSE]
                 ELSE copied
    /\ timers' = Tail(timers)
    /\ requests' = NoRequests
    /\ UNCHANGED <<variantVars, mountVars, network, pairFilter, sortConfig, queries, navigations, theme,
                   clipboard, writes, consoleErrors>>

\* the mount effect: setTheme(isDark ? 'dark' : 'light'), once (App.tsx:58-61)
MountEffect ==
    /\ ~mounted
    /\ mounted' = TRUE
    /\ theme' = IF prefersDark THEN "dark" ELSE "light"
    /\ requests' = NoRequests
    /\ IF theme' # theme THEN RegistryRenders ELSE UNCHANGED copyVars
    /\ UNCHANGED <<network, pairFilter, sortConfig, queries, navigations, variantVars,
                   prefersDark>>

\* ToggleTheme that always selects the light theme
ToggleThemeToLight ==
    /\ mounted
    /\ theme' = "light"
    /\ RegistryRenders
    /\ requests' = NoRequests
    /\ UNCHANGED <<variantVars, mountVars, network, pairFilter, sortConfig, queries, navigations>>

\* the theme button: setTheme(prev => prev === 'light' ? 'dark' : 'light') (App.tsx:337);
\* a click is handled after the effects of the commit have run
ToggleTheme ==
    /\ mounted
    /\ theme' = IF theme = "light" THEN "dark" ELSE "light"
    /\ RegistryRenders
    /\ requests' = NoRequests
    /\ UNCHANGED <<variantVars, mountVars, network, pairFilter, sortConfig, queries, navigations>>

(***************************************************************************)
(* Spec: the component of App.tsx from its mount on.  sortConfig has no    *)
(* setter there (App.tsx:56).                                              *)
(***************************************************************************)
Init ==
    /\ network \in Networks
    /\ pairFilter = <<>>
    /\ sortConfig = Null
    /\ navigations = 0
    /\ queries = [k \in QueryKeys |-> IF k[2] = network THEN Observe(NewQuery) ELSE NewQuery]
    /\ requests = [k \in QueryKeys |->
                      IF k[2] = network THEN <<RequestUrl(k[1], network)>> ELSE <<>>]
    /\ InitUi

Next ==
    \/ \E n \in Networks : Navigate(n)
    \/ \E r \in Resources, n \in Networks : \E body \in ResponseBodies(r, n) : FetchSucceed(r, n, body)
    \/ \E r \in Resources, n \in Networks : \E caught \in CaughtErrors : FetchFail(r, n, caught)
    \/ \E text \in TypedTexts : SetPairFilter(text)

Spec == Init /\ [][Next]_vars

(***************************************************************************)
(* FetcherSpec: the data fetcher alone, with fairness.  The life of a      *)
(* query depends neither on the search box nor on which body or which      *)
(* error a response carries, so one body per resource and one error of     *)
(* each kind are drawn.  A request that was sent is answered or fails in   *)
(* the end (the transport's own timeout): weak fairness of the response.   *)
(***************************************************************************)
FetcherBody(resource, n) ==
    IF resource = "assets"
    THEN [assets |-> IF n = "signet" THEN <<AssetUsd, AssetEth>> ELSE <<AssetWrapped>>]
    ELSE [pairs |-> IF n = "signet" THEN <<PairBtcUsd, PairEthUsd>> ELSE <<PairUsdEth>>]

FetcherErrors == {Http500DbDown, NotAxiosError}

Respond(resource, n) ==
    \/ FetchSucceed(resource, n, FetcherBody(resource, n))
    \/ \E caught \in FetcherErrors : FetchFail(resource, n, caught)

FetcherNext ==
    \/ \E n \in Networks : Navigate(n)
    \/ \E r \in Resources, n \in Networks : FetchSucceed(r, n, FetcherBody(r, n))
    \/ \E r \in Resources, n \in Networks : \E caught \in FetcherErrors : FetchFail(r, n, caught)

FetcherSpec ==
    /\ Init
    /\ [][FetcherNext]_vars
    /\ \A k \in QueryKeys : WF_vars(Respond(k[1], k[2]))

(***************************************************************************)
(* PipelineSpec: the filter/sort pipeline on a fetched collection, driven  *)
(* by the search box and by handleSort (part_001).                         *)
(***************************************************************************)
PipelineInit ==
    /\ network = "signet"
    /\ pairFilter = <<>>
    /\ sortConfig = Null
    /\ navigations = 0
    /\ \E P \in PairCollections :
          queries = [k \in QueryKeys |->
                        IF k = <<"pairs", "signet">>
                        THEN [status |-> "success", fetchStatus |-> "idle",
                              data |-> [pairs |-> P], error |-> Null, fetchFailureCount |-> 0]
                        ELSE IF k = <<"assets", "signet">>
                        THEN [status |-> "success", fetchStatus |-> "idle",
                              data |-> [assets |-> <<AssetUsd, AssetEth>>], error |-> Null,
                              fetchFailureCount |-> 0]
                        ELSE NewQuery]
    /\ requests = [k \in QueryKeys |->
                      IF k[2] = "signet" THEN <<RequestUrl(k[1], "signet")>> ELSE <<>>]
    /\ InitUi

PipelineNext ==
    \/ \E text \in FilterTexts : SetPairFilter(text)
    \/ \E key \in SortKeys : handleSort(key)

PipelineSpec == PipelineInit /\ [][PipelineNext]_vars

(***************************************************************************)
(* RouterSpec: the routes of App (App.tsx:707-716).  The page is opened at *)
(* a URL path; "/" is redirected to "/signet", and a path of one segment   *)
(* renders Registry with that segment as the network (App.tsx:52).  A path *)
(* is the sequence of its segments.                                        *)
(***************************************************************************)
\* the paths at which the page is opened: "/", "/signet", "/regtest", "/mainnet"
Paths == {<<>>, <<"signet">>, <<"regtest">>, <<"mainnet">>}

\* the networks the route /:network can hand to Registry
RouteNetworks == {path[1] : path \in {p \in Paths : Len(p) = 1}}

\* <Route path="/" element={<Navigate to="/signet" replace />} />,
\* <Route path="/:network" element={<Registry />} /> and
\* const { network = 'signet' } = useParams() (App.tsx:52, 711-712)
NetworkOfPath(path) == IF Len(path) = 0 THEN "signet" ELSE path[1]

\* the page is loaded at the path: the application starts afresh, Registry
\* mounts and fetches both resources of its network
OpenPath(path) ==
    /\ navigations < MaxNavigations
    /\ navigations' = navigations + 1
    /\ network' = NetworkOfPath(path)
    /\ pairFilter' = <<>>
    /\ sortConfig' = Null
    /\ queries' = [k \in DOMAIN queries |->
                      IF k[2] = NetworkOfPath(path) THEN Observe(NewQuery) ELSE NewQuery]
    /\ requests' = [k \in DOMAIN requests |->
                      IF k[2] = NetworkOfPath(path)
                      THEN <<RequestUrl(k[1], NetworkOfPath(path))>> ELSE <<>>]
    /\ theme' = "dark"
    /\ copied' = [id \in DOMAIN copied |-> FALSE]
    /\ writes' = <<>>
    /\ timers' = <<>>
    /\ consoleErrors' = {}
    /\ UNCHANGED <<clipboard, variantVars, mountVars>>

RouterInit ==
    /\ \E path \in Paths : network = NetworkOfPath(path)
    /\ pairFilter = <<>>
    /\ sortConfig = Null
    /\ navigations = 0
    /\ queries = [k \in Resources \X RouteNetworks |->
                     IF k[2] = network THEN Observe(NewQuery) ELSE NewQuery]
    /\ requests = [k \in Resources \X RouteNetworks |->
                      IF k[2] = network THEN <<RequestUrl(k[1], network)>> ELSE <<>>]
    /\ InitUi

\* a request for a network of API_ENDPOINTS is answered by that network's
\* server; a request for another network goes to a relative URL
\* ("undefined/api/v1/market/...") and is modelled as answered with an error
RouterNext ==
    \/ \E path \in Paths : OpenPath(path)
    \/ \E n \in Networks : Navigate(n)
    \/ \E r \in Resources, n \in Networks : FetchSucceed(r, n, FetcherBody(r, n))
    \/ \E r \in Resources, n \in RouteNetworks : \E caught \in FetcherErrors : FetchFail(r, n, caught)

RouterSpec == RouterInit /\ [][RouterNext]_vars

(***************************************************************************)
(* CopySpec: the copy buttons of the asset rows, with both collections of  *)
(* signet fetched.  The search box and the theme button make Registry      *)
(* render while a write or a timer is pending.  A write that was started   *)
(* resolves or rejects, and a timer that was started fires: weak fairness. *)
(***************************************************************************)
CopyInit ==
    /\ network = "signet"
    /\ pairFilter = <<>>
    /\ sortConfig = Null
    /\ navigations = 0
    /\ queries = [k \in QueryKeys |->
                     IF k[2] = "signet"
                     THEN [status |-> "success", fetchStatus |-> "idle",
                           data |-> FetcherBody(k[1], "signet"), error |-> Null,
                           fetchFailureCount |-> 0]
                     ELSE NewQuery]
    /\ requests = [k \in QueryKeys |-> <<>>]
    /\ InitUi

WriteTextSettles == \E i \in 1..Len(writes) : WriteTextResolves(i) \/ WriteTextRejects(i)

CopyNext ==
    \/ \E id \in CopyIds : handleCopy(id)
    \/ \E i \in 1..MaxPendingCopies : WriteTextResolves(i)
    \/ \E i \in 1..MaxPendingCopies : WriteTextRejects(i)
    \/ TimerFires
    \/ \E text \in TypedTexts : SetPairFilter(text)
    \/ ToggleTheme

CopySpec ==
    /\ CopyInit
    /\ [][CopyNext]_vars
    /\ WF_vars(WriteTextSettles)
    /\ WF_vars(TimerFires)


(***************************************************************************)
(* UiSpec: the component of App.tsx from its first render on, with every   *)
(* interaction the page offers: the search box, the network buttons, the   *)
(* theme button and the copy buttons.  The mount effect runs first; the    *)
(* colour-scheme preference is read once, by that effect.                  *)
(***************************************************************************)
UiInit ==
    /\ network = "signet"
    /\ pairFilter = <<>>
    /\ sortConfig = Null
    /\ navigations = 0
    /\ queries = [k \in QueryKeys |-> IF k[2] = network THEN Observe(NewQuery) ELSE NewQuery]
    /\ requests = [k \in QueryKeys |->
                      IF k[2] = network THEN <<RequestUrl(k[1], network)>> ELSE <<>>]
    /\ theme = "dark"
    /\ clipboard = <<>>
    /\ copied = [id \in CopyIds |-> FALSE]
    /\ writes = <<>>
    /\ timers = <<>>
    /\ consoleErrors = {}
    /\ assetFilter = <<>>
    /\ copiedId = Null
    /\ copyWrites = <<>>
    /\ copyTimers = <<>>
    /\ prefersDark \in BOOLEAN
    /\ mounted = FALSE

\* UiNext of a page whose column headers call handleSort
UiNextWithSortHeaders ==
    \/ MountEffect
    \/ mounted /\ \E n \in Networks : Navigate(n)
    \/ mounted /\ \E text \in TypedTexts : SetPairFilter(text)
    \/ ToggleTheme
    \/ mounted /\ handleCopy(idUSD)
    \/ mounted /\ \E r \in Resources, n \in Networks : FetchSucceed(r, n, FetcherBody(r, n))
    \/ mounted /\ \E r \in Resources, n \in Networks : FetchFail(r, n, NetworkError)
    \/ \E i \in 1..MaxPendingCopies : WriteTextResolves(i)
    \/ \E i \in 1..MaxPendingCopies : WriteTextRejects(i)
    \/ TimerFires
    \/ \E key \in SortKeys : handleSort(key)

UiNext ==
    \/ MountEffect
    \/ mounted /\ \E n \in Networks : Navigate(n)
    \/ mounted /\ \E text \in TypedTexts : SetPairFilter(text)
    \/ ToggleTheme
    \/ mounted /\ handleCopy(idUSD)
    \/ mounted /\ \E r \in Resources, n \in Networks : FetchSucceed(r, n, FetcherBody(r, n))
    \/ mounted /\ \E r \in Resources, n \in Networks : FetchFail(r, n, NetworkError)
    \/ \E i \in 1..MaxPendingCopies : WriteTextResolves(i)
    \/ \E i \in 1..MaxPendingCopies : WriteTextRejects(i)
    \/ TimerFires

UiSpec == UiInit /\ [][UiNext]_vars

(***************************************************************************)
(* SharedCopySpec: the copy buttons of the variants, whose component App   *)
(* keeps one copiedId for all buttons (part_000:52, 65-73; part_001:52,    *)
(* 66-74), with both collections of signet fetched.  App is never          *)
(* unmounted, so a resolved write always sets copiedId.                    *)
(***************************************************************************)
\* the texts of the copy buttons: asset.asset_id, pair.base_asset_id,
\* pair.quote_asset_id (part_000:356, 521, 543)
CopyTexts == {idUSD, idETH, sBTC}

\* onClick={() => copyToClipboard(text)} up to the await of
\* navigator.clipboard.writeText(text) (part_000:65-67)
copyToClipboard(text) ==
    /\ Len(copyWrites) + Len(copyTimers) < MaxPendingCopies
    /\ copyWrites' = Append(copyWrites, text)
    /\ requests' = NoRequests
    /\ UNCHANGED <<network, pairFilter, sortConfig, queries, navigations, theme, copyVars,
                   assetFilter, copiedId, copyTimers, mountVars>>

\* the write resolves: setCopiedId(text); setTimeout(() => setCopiedId(null), 2000)
\* (part_000:68-69)
CopyWriteResolves(i) ==
    /\ i \in 1..Len(copyWrites)
    /\ clipboard' = copyWrites[i]
    /\ copiedId' = [text |-> copyWrites[i]]
    /\ copyTimers' = Append(copyTimers, [text |-> copyWrites[i], delay |-> CopiedMs])
    /\ copyWrites' = Without(copyWrites, i)
    /\ requests' = NoRequests
    /\ UNCHANGED <<network, pairFilter, sortConfig, queries, navigations, theme,
                   copied, writes, timers, consoleErrors, assetFilter, mountVars>>

\* the write rejects: console.error('Failed to copy text: ', err) (part_000:70-72)
CopyWriteRejects(i) ==
    /\ i \in 1..Len(copyWrites)
    /\ copyWrites' = Without(copyWrites, i)
    /\ consoleErrors' = consoleErrors \cup {"Failed to copy text: "}
    /\ requests' = NoRequests
    /\ UNCHANGED <<network, pairFilter, sortConfig, queries, navigations, theme,
                   clipboard, copied, writes, timers, assetFilter, copiedId, copyTimers,
                   mountVars>>

\* the oldest timer fires (all timers have the same delay): setCopiedId(null)
\* (part_000:69)
CopyTimerFires ==
    /\ copyTimers # <<>>
    /\ copiedId' = Null
    /\ copyTimers' = Tail(copyTimers)
    /\ requests' = NoRequests
    /\ UNCHANGED <<network, pairFilter, sortConfig, queries, navigations, theme, copyVars,
                   assetFilter, copyWrites, mountVars>>

\* setPairFilter(e.target.value) in the variants (part_000:428): App renders
\* again and keeps its state
VariantSetPairFilter(text) ==
    /\ text # pairFilter
    /\ pairFilter' = text
    /\ requests' = NoRequests
    /\ UNCHANGED <<network, sortConfig, queries, navigations, theme, copyVars, variantVars,
                   mountVars>>

SharedCopyNext ==
    \/ \E text \in CopyTexts : copyToClipboard(text)
    \/ \E i \in 1..MaxPendingCopies : CopyWriteResolves(i)
    \/ \E i \in 1..MaxPendingCopies : CopyWriteRejects(i)
    \/ CopyTimerFires
    \/ \E text \in TypedTexts : VariantSetPairFilter(text)

SharedCopySpec == CopyInit /\ [][SharedCopyNext]_vars

(***************************************************************************)
(* AssetSpec: the asset filter of part_001 on every assets collection of   *)
(* at most MaxAssets assets and every text of FilterTexts.                 *)
(***************************************************************************)
\* setAssetFilter(text) (part_001:53)
SetAssetFilter(text) ==
    /\ text # assetFilter
    /\ assetFilter' = text
    /\ requests' = NoRequests
    /\ UNCHANGED <<network, pairFilter, sortConfig, queries, navigations, theme, copyVars,
                   copiedId, copyWrites, copyTimers, mountVars>>

AssetInit ==
    /\ network = "signet"
    /\ pairFilter = <<>>
    /\ sortConfig = Null
    /\ navigations = 0
    /\ \E A \in AssetCollections :
          queries = [k \in QueryKeys |->
                        IF k[2] = "signet"
                        THEN [status |-> "success", fetchStatus |-> "idle",
                              data |-> IF k[1] = "assets" THEN [assets |-> A]
                                       ELSE FetcherBody("pairs", "signet"),
                              error |-> Null, fetchFailureCount |-> 0]
                        ELSE NewQuery]
    /\ requests = [k \in QueryKeys |-> <<>>]
    /\ InitUi

AssetNext == \E text \in FilterTexts : SetAssetFilter(text)

AssetSpec == AssetInit /\ [][AssetNext]_vars

(***************************************************************************)
(* Properties of the filter/sort pipeline (checked under PipelineSpec).    *)
(***************************************************************************)
\* s contains t as a substring
Contains(s, t) ==
    \E i \in 0..(Len(s) - Len(t)) : \A j \in 1..Len(t) : s[i + j] = t[j]

\* the pair matches the filter text t as the specification states it
StatedPairMatch(pair, t) ==
    \/ Contains(ToLowerCase(pair.base_asset \o Slash \o pair.quote_asset), ToLowerCase(t))
    \/ Contains(ToLowerCase(pair.base_asset_id), ToLowerCase(t))
    \/ Contains(ToLowerCase(pair.quote_asset_id), ToLowerCase(t))

\* the i-th smallest element of a set of numbers
NthOf(M, i) == CHOOSE k \in M : Cardinality({m \in M : m <= k}) = i

\* number of occurrences of e in the sequence S
Occurrences(S, e) == Cardinality({i \in 1..Len(S) : S[i] = e})

\* a and b are tied in field key
Tied(a, b, key) == ~FieldLess(a, b, key) /\ ~FieldLess(b, a, key)

\* C1: the pair filter returns exactly the pairs of P whose lowercased
\* "base/quote", base id or quote id contains the lowercased filter text, as
\* a sub-sequence of P (nothing added, duplicated or reordered); for
\* P = [BTC/USD, ETH/USD] and t = "btc" it returns only the first pair.
C1_FilterExact ==
    LET P == pairsData.pairs
        M == {k \in 1..Len(P) : StatedPairMatch(P[k], pairFilter)}
    IN /\ Len(filteredPairs) = Cardinality(M)
       /\ \A i \in 1..Len(filteredPairs) : filteredPairs[i] = P[NthOf(M, i)]
       /\ (P = <<PairBtcUsd, PairEthUsd>> /\ pairFilter = <<98, 116, 99>>)
             => filteredPairs = <<PairBtcUsd>>

C1_Witness ==
    /\ pairsData.pairs = <<PairBtcUsd, PairEthUsd>>
    /\ pairFilter = <<98, 116, 99>>
    /\ filteredPairs = <<PairBtcUsd>>

\* C2: with the empty filter text the pair filter returns every pair of the
\* fetched collection in the order of the collection.
C2_EmptyFilterAll ==
    pairFilter = <<>> => filteredPairs = pairsData.pairs

C2_Witness ==
    /\ pairFilter = <<>>
    /\ Len(pairsData.pairs) >= 2
    /\ filteredPairs = pairsData.pairs

\* C3: sortData(S, k, d) is a permutation of S, non-decreasing in field k
\* for d = asc and non-increasing in field k for d = desc.
C3_SortPermutationMonotone ==
    (sortConfig # Null /\ Len(filteredPairs) > 0) =>
        LET S == filteredPairs
            R == sortedPairs
            k == sortConfig.key
        IN /\ Len(R) = Len(S)
           /\ \A e \in PairPool : Occurrences(R, e) = Occurrences(S, e)
           /\ \A i \in 1..(Len(R) - 1) :
                 IF sortConfig.direction = "asc"
                 THEN ~FieldLess(R[i + 1], R[i], k)
                 ELSE ~FieldLess(R[i], R[i + 1], k)

C3_Witness ==
    /\ sortConfig # Null
    /\ sortConfig.direction = "desc"
    /\ Len(filteredPairs) >= 3
    /\ sortedPairs # filteredPairs
    /\ \E i \in 1..(Len(sortedPairs) - 1) :
          FieldLess(sortedPairs[i + 1], sortedPairs[i], sortConfig.key)

\* C4: sortData is stable: elements whose values in the sort field are equal
\* keep their relative order, for asc and for desc.
C4_SortStable ==
    (sortConfig # Null /\ Len(filteredPairs) > 0) =>
        \A x \in PairPool :
            SelectSeq(sortedPairs, LAMBDA y : Tied(x, y, sortConfig.key))
              = SelectSeq(filteredPairs, LAMBDA y : Tied(x, y, sortConfig.key))

C4_Witness ==
    /\ sortConfig # Null
    /\ sortedPairs # filteredPairs
    /\ \E i, j \in 1..Len(filteredPairs) :
          /\ i < j
          /\ filteredPairs[i] # filteredPairs[j]
          /\ Tied(filteredPairs[i], filteredPairs[j], sortConfig.key)

\* C5: without a sort configuration sortedPairs is exactly the filtered
\* sequence (the matching pairs in the order the API delivered them).
C5_NoSortKeepsOrder ==
    sortConfig = Null => sortedPairs = filteredPairs

C5_Witness ==
    /\ sortConfig = Null
    /\ pairFilter # <<>>
    /\ Len(filteredPairs) >= 2
    /\ filteredPairs # ArraySort(filteredPairs, "id", "asc")
    /\ sortedPairs = filteredPairs

\* C6: the derivation is idempotent: filtering and sorting the derived
\* sequence again with the same text and configuration gives the same sequence.
C6_Idempotent ==
    SortedPairs(FilterPairs([pairs |-> sortedPairs], pairFilter), sortConfig) = sortedPairs

C6_Witness ==
    /\ sortConfig # Null
    /\ pairFilter # <<>>
    /\ Len(sortedPairs) >= 2
    /\ Len(sortedPairs) < Len(pairsData.pairs)
    /\ sortedPairs # filteredPairs

AxiosErrors == {e \in CaughtErrors : isAxiosError(e)}

\* C8: a fetch that fails with an Axios error delivers the normalized error:
\* the fixed message of the resource, the transport error code when there is
\* one, and as details the non-empty message of the response body, otherwise
\* the raw error text.  HTTP 500 with body message "db down" on the assets
\* fetch gives message "Failed to fetch assets" and details "db down".
C8_NormalizedError ==
    [][\A r \in Resources, n \in Networks, caught \in AxiosErrors :
          FetchFail(r, n, caught) =>
             LET delivered == queries'[<<r, n>>].error
             IN /\ delivered.message = (IF r = "assets" THEN "Failed to fetch assets"
                                        ELSE "Failed to fetch trading pairs")
                /\ IF "code" \in DOMAIN caught
                   THEN "code" \in DOMAIN delivered /\ delivered.code = caught.code
                   ELSE "code" \notin DOMAIN delivered
                /\ delivered.details =
                      (IF /\ "response" \in DOMAIN caught
                          /\ "message" \in DOMAIN caught.response.data
                          /\ caught.response.data.message # ""
                       THEN caught.response.data.message
                       ELSE caught.message)
                /\ (r = "assets" /\ caught = Http500DbDown) =>
                      /\ delivered.message = "Failed to fetch assets"
                      /\ delivered.details = "db down"]_vars

C8_Witness ==
    /\ assetsError # Null
    /\ assetsError.message = "Failed to fetch assets"
    /\ "details" \in DOMAIN assetsError
    /\ assetsError.details = "db down"
    /\ assetsError.code = "ERR_BAD_RESPONSE"
    /\ pairsError # Null
    /\ pairsError.message = "Failed to fetch trading pairs"
    /\ pairsError.details = "Network Error"

\* C9: a fetch that fails with an error that is not an Axios error delivers a
\* generic error: it carries the "unexpected error" text of the resource, no
\* code and no details, and it differs from every normalized error.
C9_GenericError ==
    [][\A r \in Resources, n \in Networks, caught \in CaughtErrors \ AxiosErrors :
          FetchFail(r, n, caught) =>
             LET delivered == queries'[<<r, n>>].error
             IN /\ delivered.message =
                      (IF r = "assets"
                       THEN "An unexpected error occurred while fetching assets"
                       ELSE "An unexpected error occurred while fetching trading pairs")
                /\ delivered.message \notin {"Failed to fetch assets", "Failed to fetch trading pairs"}
                /\ "code" \notin DOMAIN delivered
                /\ "details" \notin DOMAIN delivered
                /\ \A e \in AxiosErrors, x \in Resources : delivered # QueryFnThrows(x, e)]_vars

C9_Witness ==
    /\ pairsError # Null
    /\ pairsError.message = "An unexpected error occurred while fetching trading pairs"
    /\ "details" \notin DOMAIN pairsError
    /\ assetsError # Null
    /\ assetsError.message = "An unexpected error occurred while fetching assets"

\* a fetch of the query of this key is outstanding
Outstanding(k) == queries[k].fetchStatus = "fetching"

\* C10 as stated: while the fetch of a resource is outstanding the consumer
\* observes the loading flag set and no error.
C10_LoadingWhileOutstanding ==
    \A r \in Resources :
        Outstanding(<<r, network>>) => (IsLoading(r) /\ QueryOf(r).error = Null)

\* C10, amended: while the fetch of a resource is outstanding and no
\* collection fetched earlier is cached for the active network, the consumer
\* observes the loading flag set and no error; a fetch that succeeds leaves
\* the fetched collection, no error and the loading flag cleared; a fetch
\* that fails leaves the error thrown by queryFn and the loading flag cleared;
\* the loading flag and an error are never observed together; every started
\* fetch ends in one of the two outcomes.
C10_FetchLifecycle ==
    /\ [](\A r \in Resources :
            /\ (Outstanding(<<r, network>>) /\ QueryOf(r).data = Undefined)
                  => (IsLoading(r) /\ QueryOf(r).error = Null)
            /\ ~(IsLoading(r) /\ QueryOf(r).error # Null))
    /\ [][\A r \in Resources, n \in Networks :
            /\ (FetchSucceed(r, n, FetcherBody(r, n)) /\ n = network) =>
                  (QueryOf(r)'.data = FetcherBody(r, n) /\ QueryOf(r)'.error = Null /\ ~IsLoading(r)')
            /\ \A caught \in CaughtErrors :
                  (FetchFail(r, n, caught) /\ n = network) =>
                     (QueryOf(r)'.error # Null
                        /\ QueryOf(r)'.error.message \in {FailedMessage(r), UnexpectedMessage(r)}
                        /\ ~IsLoading(r)')]_vars
    /\ \A k \in QueryKeys :
          Outstanding(k) ~> (~Outstanding(k) /\ queries[k].status \in {"success", "error"})

C10_Witness ==
    /\ navigations = 2
    /\ Outstanding(<<"pairs", network>>)
    /\ pairsData # Undefined
    /\ ~isLoadingPairs
    /\ QueryOf("assets").status = "error"
    /\ assetsData = Undefined
    /\ assetsError # Null
    /\ ~isLoadingAssets

(***************************************************************************)
(* Properties of the requests (checked under FetcherSpec).                 *)
(***************************************************************************)
\* the number of GET requests the last step sent for a key
Sent(k) == Len(requests[k])

\* C11 as stated: a failed fetch is not sent again, and the mount and every
\* change of the active network cause exactly one GET request per resource;
\* no other step sends a request.
C11_ExactlyOneRequestPerChange ==
    /\ \A r \in Resources : Sent(<<r, network>>) = 1
    /\ [][/\ network' # network => \A r \in Resources : Len(requests'[<<r, network'>>]) = 1
          /\ network' = network => requests' = NoRequests]_vars

\* C11, amended: a failed fetch is not sent again.  The mount causes one GET
\* request per resource; a change of the active network to n causes one GET
\* request per resource, to the URL of n, except for a resource whose
\* request for n is still in flight, which is not sent a second time; no
\* other step (a failure included) sends a request, so a failed request is
\* followed by another one for its key only at the next change to its network.
C11_NoRetry ==
    /\ \A r \in Resources : Sent(<<r, network>>) = 1
    /\ [][/\ network' # network =>
               \A r \in Resources :
                   requests'[<<r, network'>>] =
                       IF Outstanding(<<r, network'>>) THEN <<>>
                       ELSE <<RequestUrl(r, network')>>
          /\ \A k \in QueryKeys :
                (network' = network \/ k[2] # network') => requests'[k] = <<>>
          /\ \A r \in Resources, n \in Networks, caught \in CaughtErrors :
                FetchFail(r, n, caught) =>
                    (queries'[<<r, n>>].status = "error" /\ ~Outstanding(<<r, n>>)')]_vars

\* the switch back to a network whose assets fetch had failed and whose pairs
\* request is still in flight: one request is sent for the assets, none for
\* the pairs
C11_Witness ==
    /\ navigations = 2
    /\ Sent(<<"assets", network>>) = 1
    /\ Sent(<<"pairs", network>>) = 0
    /\ Outstanding(<<"pairs", network>>)
    /\ QueryOf("pairs").data = Undefined

(***************************************************************************)
(* Properties of a network switch (checked under Spec).                    *)
(***************************************************************************)
OtherNetwork(n) == IF n = "signet" THEN "regtest" ELSE "signet"

\* the rows and cards on display
DisplayedAssets == AssetsSection.rows

DisplayedPairs == IF PairsSection.shows = "pairs" THEN PairsSection.cards ELSE <<>>

\* the element belongs to a response of the server of network n
ServedBy(resource, n, element) ==
    \E body \in ResponseBodies(resource, n) :
        \E i \in 1..Len(body[resource]) : body[resource][i] = element

\* C12: after a switch of the active network (signet -> regtest, and the
\* other way round) no row and no card on display comes from a response of
\* the network left behind; a response or failure of that network that
\* arrives after the switch changes neither section; and once both fetches
\* of the active network have succeeded the sections show its responses: the
\* assets of the response, and the pairs of the response that match the
\* search text.
C12_StaleResponseNeverShown ==
    /\ [](/\ \A i \in 1..Len(DisplayedAssets) :
                ~ServedBy("assets", OtherNetwork(network), DisplayedAssets[i])
          /\ \A i \in 1..Len(DisplayedPairs) :
                ~ServedBy("pairs", OtherNetwork(network), DisplayedPairs[i])
          /\ (\A r \in Resources : queries[<<r, network>>].status = "success") =>
                /\ \E body \in ResponseBodies("assets", network) : DisplayedAssets = body.assets
                /\ PairsSection.shows = "pairs"
                /\ \E body \in ResponseBodies("pairs", network) :
                      DisplayedPairs = SelectSeq(body.pairs, LAMBDA pair : StatedPairMatch(pair, pairFilter)))
    /\ [][\A r \in Resources :
            (queries'[<<r, OtherNetwork(network)>>] # queries[<<r, OtherNetwork(network)>>]
                /\ network' = network)
               => (AssetsSection' = AssetsSection /\ PairsSection' = PairsSection)]_vars

\* regtest is active after one switch from signet; the signet pairs response
\* has arrived, the signet assets request is still in flight, and the
\* sections show the regtest responses
C12_Witness ==
    /\ network = "regtest"
    /\ navigations = 1
    /\ queries[<<"pairs", "signet">>].status = "success"
    /\ Outstanding(<<"assets", "signet">>)
    /\ DisplayedAssets = <<AssetWrapped>>
    /\ DisplayedPairs = <<PairUsdEth>>

(***************************************************************************)
(* Properties of the route and of the request URLs (checked under          *)
(* RouterSpec).                                                            *)
(***************************************************************************)
ConfiguredOrigins == {API_ENDPOINTS[n] : n \in DOMAIN API_ENDPOINTS}

\* the base URL the component derives from the active network
BaseUrl == RequestUrl("assets", network)[1]

\* C14: in every reachable state the active network is one of signet and
\* regtest, after any sequence of network selections and page loads, and so
\* the base URL of the requests is one of the two configured origins.
C14_NetworkIsConfigured ==
    /\ network \in Networks
    /\ BaseUrl \in ConfiguredOrigins
    /\ \A k \in DOMAIN requests : \A i \in 1..Len(requests[k]) :
          requests[k][i][1] \in ConfiguredOrigins

\* the base URL and the path the specification states for a request
StatedUrl(resource, n) ==
    <<IF n = "signet" THEN "https://api.signet.kaleidoswap.com"
      ELSE "https://api.regtest.kaleidoswap.com",
      IF resource = "assets" THEN "/api/v1/market/assets" ELSE "/api/v1/market/pairs">>

\* C13 as stated: every change of the active network to n sends a new
\* request for both resources, to the stated URL of n.
C13_EveryChangeFetchesBoth ==
    [][(network' # network /\ network' \in Networks) =>
          \A r \in Resources : requests'[<<r, network'>>] = <<StatedUrl(r, network')>>]_vars

\* C13, amended: after every change of the active network to n (signet or
\* regtest) a fetch of both resources is in flight for the key (resource, n):
\* one newly requested from the stated URL of n, or, when a request for that
\* key was still in flight, that one and no second request.  Every request
\* is sent for the network that is active when it is issued and, for signet
\* and regtest, to the stated base URL of that network and the fixed path of
\* the resource, never to the base URL of the other network.
C13_RequestsFollowNetwork ==
    /\ [](\A k \in DOMAIN requests : \A i \in 1..Len(requests[k]) :
             /\ k[2] = network
             /\ k[2] \in Networks =>
                   /\ requests[k][i] = StatedUrl(k[1], k[2])
                   /\ requests[k][i][1] # StatedUrl(k[1], OtherNetwork(k[2]))[1])
    /\ [][(network' # network /\ network' \in Networks) =>
             \A r \in Resources :
                /\ queries'[<<r, network'>>].fetchStatus = "fetching"
                /\ \/ requests'[<<r, network'>>] = <<StatedUrl(r, network')>>
                   \/ Outstanding(<<r, network'>>) /\ requests'[<<r, network'>>] = <<>>]_vars

\* the switch from signet to regtest while the signet assets request is in
\* flight: both regtest requests are sent, to the regtest URLs
C13_Witness ==
    /\ network = "regtest"
    /\ navigations = 1
    /\ Outstanding(<<"assets", "signet">>)
    /\ requests[<<"assets", "regtest">>] =
          <<(<<"https://api.regtest.kaleidoswap.com", "/api/v1/market/assets">>)>>
    /\ requests[<<"pairs", "regtest">>] =
          <<(<<"https://api.regtest.kaleidoswap.com", "/api/v1/market/pairs">>)>>
    /\ requests[<<"assets", "signet">>] = <<>>

(***************************************************************************)
(* Properties of the two sections (checked under Spec).                    *)
(***************************************************************************)
\* the texts of the alert a section displays
AssetsAlertTexts ==
    IF AssetsSection.alert # Null THEN {AssetsSection.alert.title, AssetsSection.alert.text}
    ELSE {}

PairsAlertTexts == IF PairsSection.shows = "alert" THEN {PairsSection.text} ELSE {}

\* C15: in every state where the pairs fetch has failed, the assets section
\* renders by the assets fetch alone: its spinner and no row while the fetch
\* loads, the rows of the response and neither spinner nor alert after a
\* success, its own alert with the message of the assets error after a
\* failure; and no response or failure of the pairs fetch changes it.
C15_AssetsSectionIndependent ==
    /\ [](pairsError # Null =>
            /\ queries[<<"assets", network>>].status = "pending" =>
                  /\ AssetsSection.spinner
                  /\ AssetsSection.alert = Null
                  /\ AssetsSection.rows = <<>>
            /\ queries[<<"assets", network>>].status = "success" =>
                  /\ ~AssetsSection.spinner
                  /\ AssetsSection.alert = Null
                  /\ \E body \in ResponseBodies("assets", network) :
                        AssetsSection.rows = body.assets
            /\ queries[<<"assets", network>>].status = "error" =>
                  /\ ~AssetsSection.spinner
                  /\ AssetsSection.alert # Null
                  /\ queries[<<"assets", network>>].error.message \in AssetsAlertTexts
                  /\ "Failed to load data. Please try again later." \notin AssetsAlertTexts)
    /\ [][(queries'[<<"pairs", network>>] # queries[<<"pairs", network>>] /\ network' = network)
             => AssetsSection' = AssetsSection]_vars

\* the pairs fetch has failed and the assets section shows the two assets of
\* the signet response
C15_Witness ==
    /\ network = "signet"
    /\ pairsError # Null
    /\ pairsData = Undefined
    /\ queries[<<"assets", "signet">>].status = "success"
    /\ AssetsSection.rows = <<AssetUsd, AssetEth>>
    /\ AssetsSection.alert = Null

\* C16: in every state where the assets fetch has failed and the pairs fetch
\* has succeeded, the pairs section shows the pairs that match the search
\* text, not an alert and not a spinner.
C16_PairsSectionIndependent ==
    (assetsError # Null /\ queries[<<"pairs", network>>].status = "success") =>
        /\ PairsSection.shows = "pairs"
        /\ PairsSection.cards =
              SelectSeq(pairsData.pairs, LAMBDA pair : StatedPairMatch(pair, pairFilter))

\* C17: a fetch holds back only its own consumer: while the assets fetch is
\* outstanding and the pairs fetch has succeeded the pairs section shows the
\* pairs, not a spinner; while the pairs fetch is outstanding and the assets
\* fetch has succeeded the assets section shows the assets.
C17_OwnConsumerOnly ==
    /\ (Outstanding(<<"assets", network>>) /\ queries[<<"pairs", network>>].status = "success") =>
          PairsSection.shows = "pairs"
    /\ (Outstanding(<<"pairs", network>>) /\ queries[<<"assets", network>>].status = "success") =>
          (AssetsSection.rows = assetsData.assets /\ ~AssetsSection.spinner)

\* C18: in every state where the fetch of a resource has failed, an alert of
\* that resource's section is displayed that contains the message of the
\* normalized error and, when the error has details, the details.
C18_FailureAlertShowsError ==
    /\ assetsError # Null =>
          /\ assetsError.message \in AssetsAlertTexts
          /\ "details" \in DOMAIN assetsError => assetsError.details \in AssetsAlertTexts
    /\ pairsError # Null =>
          /\ pairsError.message \in PairsAlertTexts
          /\ "details" \in DOMAIN pairsError => pairsError.details \in PairsAlertTexts

(***************************************************************************)
(* Properties of the copy buttons (checked under CopySpec).                *)
(***************************************************************************)
\* C19: after a successful copy of an identifier the clipboard holds the
\* full identifier, not its shortened displayed form, the copied indicator
\* of the identifier is set and a timer of 2000 ms is started; the indicator
\* is cleared when that timer fires, and it never stays set forever.
C19_CopySetsIndicator ==
    /\ [][\A i \in 1..MaxPendingCopies :
            WriteTextResolves(i) =>
                /\ clipboard' = writes[i].id
                /\ clipboard' # DisplayedId(writes[i].id)
                /\ copied'[writes[i].id]
                /\ \E t \in 1..Len(timers') :
                      timers'[t].id = writes[i].id /\ timers'[t].delay = 2000]_vars
    /\ [][TimerFires => ~copied'[Head(timers).id]]_vars
    /\ \A id \in CopyIds : copied[id] ~> ~copied[id]

\* C20: a rejected clipboard write is only logged: the step sets no
\* indicator, starts no timer, leaves the clipboard, the network, the search
\* text, the theme and the fetched data as they were and changes nothing the
\* two sections display; an indicator is set only while a timer started by a
\* successful write is pending.
C20_WriteFailureOnlyLogged ==
    /\ [](\A id \in CopyIds :
            copied[id] => \E t \in 1..Len(timers) : timers[t].id = id /\ timers[t].live)
    /\ [][\A i \in 1..MaxPendingCopies :
            WriteTextRejects(i) =>
                /\ copied' = copied
                /\ timers' = timers
                /\ clipboard' = clipboard
                /\ "Failed to copy text: " \in consoleErrors'
                /\ network' = network
                /\ pairFilter' = pairFilter
                /\ theme' = theme
                /\ queries' = queries
                /\ AssetsSection' = AssetsSection
                /\ PairsSection' = PairsSection]_vars

\* the only copy so far was rejected: the error is logged, no indicator is
\* set, no timer is pending and the clipboard was not written
C20_Witness ==
    /\ consoleErrors = {"Failed to copy text: "}
    /\ writes = <<>>
    /\ timers = <<>>
    /\ clipboard = <<>>
    /\ \A id \in CopyIds : ~copied[id]
    /\ AssetsSection.alert = Null
    /\ PairsSection.shows = "pairs"

(***************************************************************************)
(* Properties of the derivation in the component (checked under Spec).     *)
(***************************************************************************)
\* C21: in every reachable state the filter/sort derivation yields a
\* sequence of pairs, and it yields the empty sequence whenever the active
\* network has no pairs data: its fetch is outstanding, has failed, or has
\* not delivered anything yet.
C21_DerivationTotal ==
    /\ filteredPairs \in Seq(PairPool)
    /\ sortedPairs \in Seq(PairPool)
    /\ pairsData = Undefined => (filteredPairs = <<>> /\ sortedPairs = <<>>)
    /\ (QueryOf("pairs").status # "success" /\ QueryOf("pairs").data = Undefined) =>
          Len(sortedPairs) = 0

\* the pairs fetch of the active network has failed without data while the
\* search box holds "btc": the derivation yields the empty sequence
C21_Witness ==
    /\ QueryOf("pairs").status = "error"
    /\ pairsData = Undefined
    /\ pairFilter = <<98, 116, 99>>
    /\ sortedPairs = <<>>

(***************************************************************************)
(* Properties of the asset filter of part_001 (checked under AssetSpec).   *)
(***************************************************************************)
\* the asset matches the filter text t as the specification states it
StatedAssetMatch(asset, t) ==
    \/ Contains(ToLowerCase(asset.ticker), ToLowerCase(t))
    \/ Contains(ToLowerCase(asset.name), ToLowerCase(t))
    \/ Contains(ToLowerCase(asset.asset_id), ToLowerCase(t))

\* C22: the asset filter of part_001 returns exactly the assets of A whose
\* lowercased ticker, name or asset_id contains the lowercased filter text,
\* in the order of A; with the empty filter text it returns all of A.
C22_AssetFilterExact ==
    LET A == assetsData.assets
        M == {k \in 1..Len(A) : StatedAssetMatch(A[k], assetFilter)}
    IN /\ Len(filteredAssets) = Cardinality(M)
       /\ \A i \in 1..Len(filteredAssets) : filteredAssets[i] = A[NthOf(M, i)]
       /\ assetFilter = <<>> => filteredAssets = A

\* "th" is in the ticker of ETH and in the name of Tth only, and not in USD
C22_Witness ==
    /\ assetsData.assets = <<AssetTether, AssetUsd, AssetEth>>
    /\ assetFilter = <<116, 104>>
    /\ filteredAssets = <<AssetTether, AssetEth>>

(***************************************************************************)
(* Properties of the page under every interaction (checked under UiSpec).  *)
(***************************************************************************)
\* C23: in every state reachable through filter typing, network switches,
\* theme toggles and copies there is no active sort, so the displayed pairs
\* are the filtered pairs in the order of the API.
C23_NoActiveSort ==
    /\ sortConfig = Null
    /\ sortedPairs = filteredPairs
    /\ pairsData # Undefined =>
          sortedPairs = SelectSeq(pairsData.pairs, LAMBDA pair : StatedPairMatch(pair, pairFilter))

C23_Witness ==
    /\ navigations = 2
    /\ theme = "light"
    /\ pairFilter = <<98, 116, 99>>
    /\ clipboard = idUSD
    /\ pairsData # Undefined
    /\ sortConfig = Null
    /\ sortedPairs = <<PairBtcUsd>>

\* the theme that follows the colour-scheme preference
PreferredTheme == IF prefersDark THEN "dark" ELSE "light"

OtherTheme(t) == IF t = "light" THEN "dark" ELSE "light"

\* C24: the theme is always light or dark; the mount effect sets it to the
\* colour-scheme preference; afterwards only a toggle changes it, each
\* toggle flips it (so two toggles in a row restore it), and the mount
\* effect never runs again, so it never overrides a toggled theme.
C24_ThemeFollowsPreferenceThenToggles ==
    /\ [](theme \in {"light", "dark"})
    /\ [][MountEffect => theme' = PreferredTheme]_vars
    /\ [][mounted => mounted' /\ ~MountEffect]_vars
    /\ [][(mounted /\ theme' # theme) => ToggleTheme]_vars
    /\ [][ToggleTheme => (theme' = OtherTheme(theme) /\ OtherTheme(theme') = theme)]_vars

\* the preference is light, the user has toggled to dark and then switched
\* the network twice: the theme is still the toggled one
C24_Witness ==
    /\ mounted
    /\ ~prefersDark
    /\ theme = "dark"
    /\ navigations = 2
    /\ theme # PreferredTheme

(***************************************************************************)
(* Properties of the shared copied indicator of the variants (checked      *)
(* under SharedCopySpec).                                                  *)
(***************************************************************************)
\* the text of the most recent successful copy whose timer has not fired
LatestCopy == copyTimers[Len(copyTimers)].text

\* C25: while the 2-second timer of the most recent successful copy is
\* pending, the copied indicator shows that copy: no timer of an earlier
\* copy clears it.
C25_IndicatorLastsFullInterval ==
    copyTimers # <<>> => copiedId = [text |-> LatestCopy]

(***************************************************************************)
(* Further properties of the filter/sort pipeline (checked under           *)
(* PipelineSpec).                                                          *)
(***************************************************************************)
\* every text that is a substring of t
SubTexts(t) == {SubSeq(t, i, j) : i \in 1..(Len(t) + 1), j \in 0..Len(t)}

\* the elements of the sequence S
Elements(S) == {S[i] : i \in 1..Len(S)}

\* C26: the pair filter is monotone in the filter text: for the collection
\* P and the text t2 of the state and every substring t1 of t2, every pair
\* returned for t2 is also returned for t1, and filtering the result for t1
\* with t2 gives the result for t2.
C26_FilterMonotone ==
    \A t1 \in SubTexts(pairFilter) :
        LET shorter == FilterPairs(pairsData, t1)
        IN /\ Contains(pairFilter, t1)
           /\ Elements(filteredPairs) \subseteq Elements(shorter)
           /\ Len(filteredPairs) <= Len(shorter)
           /\ FilterPairs([pairs |-> shorter], pairFilter) = filteredPairs

\* "c/u" keeps BTC/USD only; its substring "u" keeps both pairs
C26_Witness ==
    /\ pairsData.pairs = <<PairEthUsd, PairBtcUsd>>
    /\ pairFilter = <<99, 47, 117>>
    /\ filteredPairs = <<PairBtcUsd>>
    /\ FilterPairs(pairsData, <<117>>) = <<PairEthUsd, PairBtcUsd>>

\* C27: handleSort(key) sets the configuration to (key, desc) exactly when
\* the current configuration is (key, asc) and to (key, asc) in every other
\* case, so calls with one key alternate asc, desc, asc, ...; once a
\* configuration is set it never returns to "no active sort".
C27_HandleSortToggles ==
    /\ [][\A key \in SortKeys : handleSort(key) =>
              /\ sortConfig'.key = key
              /\ sortConfig'.direction \in {"asc", "desc"}
              /\ sortConfig'.direction = "desc" <=>
                    sortConfig = [key |-> key, direction |-> "asc"]
              /\ sortConfig = Null => sortConfig'.direction = "asc"
              /\ sortConfig = [key |-> key, direction |-> "desc"] =>
                    sortConfig'.direction = "asc"]_vars
    /\ [][sortConfig # Null => sortConfig' # Null]_vars

\* the second call with price_precision after a call with another key
C27_Witness ==
    /\ sortConfig = [key |-> "price_precision", direction |-> "desc"]
    /\ pairFilter = <<117, 115, 100>>
    /\ Len(pairsData.pairs) = 2

(***************************************************************************)
(* Frame properties of the interactions (checked under UiSpec).            *)
(***************************************************************************)
\* C28: a step that changes the pair filter text or toggles the theme sends
\* no request and leaves the active network and the state of both queries
\* (data, loading flag, error) unchanged; a step sends requests only if it
\* changes the active network (the mount has sent the first requests).
C28_TypingAndThemeFetchNothing ==
    /\ [][(pairFilter' # pairFilter \/ ToggleTheme) =>
              /\ requests' = NoRequests
              /\ network' = network
              /\ queries' = queries
              /\ assetsData' = assetsData /\ pairsData' = pairsData
              /\ isLoadingAssets' = isLoadingAssets /\ isLoadingPairs' = isLoadingPairs
              /\ assetsError' = assetsError /\ pairsError' = pairsError]_vars
    /\ [][requests' # NoRequests => network' # network]_vars
    /\ [][(\E k \in DOMAIN queries :
               queries'[k].fetchStatus = "fetching" /\ queries[k].fetchStatus # "fetching")
             => network' # network]_vars

\* the user has typed and toggled while the pairs fetch is outstanding and
\* after the assets fetch failed
C28_Witness ==
    /\ pairFilter = <<98, 116, 99>>
    /\ mounted /\ theme # PreferredTheme
    /\ QueryOf("pairs").fetchStatus = "fetching"
    /\ assetsError # Null
    /\ requests = NoRequests

\* C29: a switch of the active network leaves the pair filter text and the
\* theme unchanged, and the pairs on display are those of the active
\* network's response that match the filter text.
C29_SwitchKeepsFilterAndTheme ==
    /\ [][network' # network => (pairFilter' = pairFilter /\ theme' = theme)]_vars
    /\ [](PairsSection.shows = "pairs" =>
             PairsSection.cards =
                SelectSeq(FetcherBody("pairs", network).pairs,
                          LAMBDA pair : StatedPairMatch(pair, pairFilter)))

\* the step just taken is the switch back to signet with "btc" in the search
\* box and the light theme chosen: the cached signet pairs are displayed,
\* filtered by "btc"
C29_Witness ==
    /\ network = "signet"
    /\ navigations = 2
    /\ requests # NoRequests
    /\ pairFilter = <<98, 116, 99>>
    /\ prefersDark /\ theme = "light"
    /\ PairsSection.shows = "pairs"
    /\ PairsSection.cards = <<PairBtcUsd>>

====
